---- MODULE Spec2Model ----
(***************************************************************************)
(* Model of src/python/analysis_visualizations.py: a straight-line batch   *)
(* script that loads an order table, derives columns, and runs six         *)
(* (aggregate, render, print) report blocks.                               *)
(*                                                                         *)
(* Monetary amounts are exact integers in units of 1/Scale dollar, so a    *)
(* threshold "5" of the source is 5 * Scale here.  Means are kept as exact *)
(* rationals [sum, n]; rates as [num, den].  Text that is only compared    *)
(* for equality is a TLA+ string; text that is ordered character by        *)
(* character (the month key) is a sequence of character codes.             *)
(***************************************************************************)
EXTENDS Integers, Sequences, FiniteSets, TLC

VARIABLES
    pc,              \* position of the script outside the report blocks
    bpc,             \* bpc[k]: position inside report block k (1..6)
    file_ok,         \* environment: ../data/food_orders.csv is readable
    csv,             \* environment: the rows of the input file
    fig_dir,         \* FIG_DIR exists
    df,              \* the order table: [columns, rows]
    aov_pay,         \* summary table of chart 1
    monthly,         \* summary table of chart 2
    profit_summary,  \* summary table of chart 3
    disc_impact,     \* summary table of chart 4
    band_data,       \* summary table of chart 5
    rest_refund,     \* grouped table of chart 6 (before ranking)
    top_refund,      \* summary table of chart 6
    images,          \* image files written by savefig
    out              \* lines printed on the console

vars == <<pc, bpc, file_ok, csv, fig_dir, df, aov_pay, monthly, profit_summary,
          disc_impact, band_data, rest_refund, top_refund, images, out>>

-----------------------------------------------------------------------------
(* Bounds of the model *)

\* resolution of amounts: one unit is 1/Scale dollar
Scale == 2
\* longest table built from the sample orders
MaxRows == 3
\* single-order tables: largest order value, discount and fee, in dollars
MaxValue == 51
MaxDiscount == 16
MaxFee == 1
\* ranking tables: largest number of restaurants
NumRest == 12
\* tables of the reordered run
MaxPermRows == 1

-----------------------------------------------------------------------------
(* Generic helpers *)

Range(s) == {s[i] : i \in DOMAIN s}

Min(a, b) == IF a < b THEN a ELSE b

RECURSIVE SumSeq(_)
SumSeq(s) == IF s = <<>> THEN 0 ELSE Head(s) + SumSeq(Tail(s))

RECURSIVE Pow10(_)
Pow10(n) == IF n = 0 THEN 1 ELSE 10 * Pow10(n - 1)

\* a cell of a summary that a reindex may leave empty: <<v>> holds v, <<>> is NaN
Cell(v) == <<v>>

NaN == <<>>

\* Python's str ordering on character-code sequences
LexLess(a, b) ==
    \E i \in 1..(Min(Len(a), Len(b)) + 1) :
        /\ \A j \in 1..(i - 1) : a[j] = b[j]
        /\ \/ i > Len(a) /\ i <= Len(b)
           \/ i <= Len(a) /\ i <= Len(b) /\ a[i] < b[i]

\* Python's str ordering on the labels and payment methods the script groups by
Collation ==
    << "Cash on Delivery", "Credit Card", "Digital Wallet",
       "High ($30-50)", "High (15+)", "Loss-Making", "Low (1-5)", "Low (< $15)",
       "Mid ($15-30)", "Mid (6-15)", "No Discount", "Premium (> $50)", "Profitable" >>

StrRank(s) == CHOOSE i \in DOMAIN Collation : Collation[i] = s

StrLess(a, b) == StrRank(a) < StrRank(b)

\* the order of the values of column col: restaurant ids are numbers, month
\* keys are compared character by character, every other key is a label
KeyLess(col, a, b) ==
    CASE col = "restaurant_id" -> a < b
      [] col = "order_month"   -> LexLess(a, b)
      [] OTHER                 -> StrLess(a, b)

\* a stable sort of s, lt[i, j] telling that s[i] sorts strictly before s[j]:
\* elements that lt does not order keep their relative order
StableSort(s, lt) ==
    LET pos(i) == 1 + Cardinality({j \in DOMAIN s :
                        lt[j, i] \/ (j < i /\ ~lt[i, j])})
    IN  [k \in DOMAIN s |-> s[CHOOSE i \in DOMAIN s : pos(i) = k]]

\* the distinct values S of column col in ascending order
SortedKeys(S, col) ==
    LET pos(x) == 1 + Cardinality({y \in S : KeyLess(col, y, x)})
    IN  [k \in 1..Cardinality(S) |-> CHOOSE x \in S : pos(x) = k]

Column(rows, col) == [i \in DOMAIN rows |-> rows[i][col]]

\* row r with column col set to v (added when absent)
WithCell(r, col, v) ==
    [c \in (DOMAIN r) \cup {col} |-> IF c = col THEN v ELSE r[c]]

\* exact mean of a sequence of amounts, and the order on means
Mean(s) == [sum |-> SumSeq(s), n |-> Len(s)]

MeanLess(a, b) == a.sum * b.n < b.sum * a.n

\* exact ratio, and the order on ratios with positive denominators
RateLess(a, b) == a.num * b.den < b.num * a.den

-----------------------------------------------------------------------------
(* pandas operations used by the script *)

\* a grouping that starts a new group at every change of the key between
\* adjacent rows, without collecting equal keys
GroupByRuns(rows, col) ==
    LET starts == {i \in DOMAIN rows : i = 1 \/ rows[i][col] # rows[i - 1][col]}
        first  == [k \in 1..Cardinality(starts) |->
                     CHOOSE i \in starts : Cardinality({j \in starts : j < i}) = k - 1]
        last(k) == IF k = Cardinality(starts) THEN Len(rows) ELSE first[k + 1] - 1
    IN  [k \in DOMAIN first |->
            [key |-> rows[first[k]][col], rows |-> SubSeq(rows, first[k], last(k))]]

\* df.groupby(col): the groups in ascending key order (sort=True), each with
\* its rows in table order
GroupBy(rows, col) ==
    LET keys == SortedKeys(Range(Column(rows, col)), col)
    IN  [k \in DOMAIN keys |->
            [key |-> keys[k], rows |-> SelectSeq(rows, LAMBDA r : r[col] = keys[k])]]

\* df[col] = values: the column is appended when new and overwritten when
\* present; values[i] is the cell of row i
AddColumn(d, col, values) ==
    [columns |-> IF col \in Range(d.columns) THEN d.columns ELSE Append(d.columns, col),
     rows    |-> [i \in DOMAIN d.rows |-> WithCell(d.rows[i], col, values[i])]]


\* frame.nlargest(n, col): the n rows with the largest ratio, in descending
\* order, equal ratios in frame order (keep="first")
NLargest(rows, n, col) ==
    LET sorted == StableSort(rows, [i, j \in DOMAIN rows |->
                                      RateLess(rows[j][col], rows[i][col])])
    IN  SubSeq(sorted, 1, Min(n, Len(sorted)))

-----------------------------------------------------------------------------
(* The input file *)

RawColumns ==
    << "order_id", "restaurant_id", "order_date_and_time", "delivery_date_and_time",
       "order_value", "delivery_fee", "payment_method", "discounts_and_offers",
       "commission_fee", "payment_processing_fee", "refunds_chargebacks" >>

Stamp(y, m, d) == [year |-> y, month |-> m, day |-> d]

\* one order; amounts are given in units of 1/Scale dollar
Order(rest, pay, date, value, comm, fee, proc, disc, refund) ==
    [restaurant_id |-> rest, payment_method |-> pay,
     order_date_and_time |-> date, delivery_date_and_time |-> date,
     order_value |-> value, commission_fee |-> comm, delivery_fee |-> fee,
     payment_processing_fee |-> proc, discounts_and_offers |-> disc,
     refunds_chargebacks |-> refund]

\* the rows of a file: order_id is the row number
Table(orders) == [i \in DOMAIN orders |-> WithCell(orders[i], "order_id", i)]

SampleOrders ==
    { Order(1, "Credit Card",      Stamp(2024, 2, 1),   10 * Scale, 5 * Scale,  3 * Scale, 1 * Scale, 0,          0),
      Order(2, "Cash on Delivery", Stamp(2024, 10, 7),  15 * Scale, 2 * Scale,  1 * Scale, 1 * Scale, 5 * Scale,  0),
      Order(1, "Digital Wallet",   Stamp(2024, 2, 28),  30 * Scale, 10 * Scale, 6 * Scale, 1 * Scale, 15 * Scale, 0),
      Order(3, "Credit Card",      Stamp(2023, 12, 31), 50 * Scale, 10 * Scale, 5 * Scale, 2 * Scale, 16 * Scale, 10 * Scale),
      Order(2, "Credit Card",      Stamp(2024, 10, 7),  29 * Scale, 4 * Scale,  2 * Scale, 1 * Scale, 6 * Scale,  0) }

SeqsUpTo(S, n) == UNION {[1..k -> S] : k \in 0..n}

SmallTables == {Table(o) : o \in SeqsUpTo(SampleOrders, MaxRows)}

BaseOrder == Order(1, "Credit Card", Stamp(2024, 2, 1), 20 * Scale, 0, 0, 0, 0, 0)

\* single-order tables sweeping every amount of the resolution
UnitOrders ==
    {[BaseOrder EXCEPT !.order_value = v] : v \in 0..(MaxValue * Scale)}
    \cup {[BaseOrder EXCEPT !.discounts_and_offers = d] : d \in 0..(MaxDiscount * Scale)}
    \cup {[BaseOrder EXCEPT !.commission_fee = c, !.delivery_fee = f,
                            !.payment_processing_fee = p, !.discounts_and_offers = d,
                            !.refunds_chargebacks = r] :
            c \in 0..(MaxFee * Scale), f \in 0..MaxFee, p \in 0..MaxFee,
            d \in 0..MaxFee, r \in 0..MaxFee}

UnitTables == {Table(<<o>>) : o \in UnitOrders}

\* the orders of one restaurant: total orders, the first refunds of them refunded
RestOrders(rest, total, refunds) ==
    [i \in 1..total |->
        [BaseOrder EXCEPT !.restaurant_id = rest,
                          !.refunds_chargebacks = IF i <= refunds THEN 3 * Scale ELSE 0]]

RECURSIVE RankOrders(_, _)
\* restaurants n, n-1, .. 1 in that order in the file, restaurant r with profile prof[r]
RankOrders(n, prof) ==
    IF n = 0 THEN <<>>
    ELSE RestOrders(n, prof[n][1], prof[n][2]) \o RankOrders(n - 1, prof)

\* profiles <<total orders, refunded orders>>: restaurant x has too few orders,
\* restaurant b has the rate 2/10, the restaurants of hot the rate 2/5, the others 1/5
RankProfile(n, x, b, hot) ==
    [r \in 1..n |-> IF r = x THEN <<4, 4>>
                    ELSE IF r \in hot THEN <<5, 2>>
                    ELSE IF r = b THEN <<10, 2>>
                    ELSE <<5, 1>>]

RankTables ==
    {Table(RankOrders(n, RankProfile(n, x, b, hot))) :
        n \in (NumRest - 2)..NumRest, x \in {0, 1, NumRest - 2}, b \in {0, 2},
        hot \in {{}} \cup {{h} : h \in 1..NumRest} \cup {{h, h + 1} : h \in 1..NumRest}}

\* the orders of the tables of the reordered run
PermOrders ==
    << Order(1, "Credit Card",      Stamp(2024, 2, 1),   10 * Scale, 5 * Scale,  3 * Scale, 1 * Scale, 0,          0),
       Order(3, "Cash on Delivery", Stamp(2023, 12, 31), 50 * Scale, 10 * Scale, 5 * Scale, 2 * Scale, 16 * Scale, 10 * Scale),
       Order(1, "Credit Card",      Stamp(2024, 10, 7),  29 * Scale, 4 * Scale,  2 * Scale, 1 * Scale, 6 * Scale,  0),
       Order(2, "Digital Wallet",   Stamp(2024, 2, 28),  15 * Scale, 2 * Scale,  1 * Scale, 1 * Scale, 5 * Scale,  0) >>

PermTables == {Table(SubSeq(PermOrders, 1, k)) : k \in 0..Min(MaxPermRows, Len(PermOrders))}

-----------------------------------------------------------------------------
(* Loading and feature derivation *)

NoTable == [columns |-> <<>>, rows |-> <<>>]

\* pd.read_csv and the normalisation of the header: every column of the file
\* under its normalised name
ReadCsv(c) == [columns |-> RawColumns, rows |-> c]

\* pd.to_datetime of a cell: the calendar fields of the time stamp
ToDatetime(t) == [year |-> t.year, month |-> t.month, day |-> t.day]

\* n as exactly width decimal digits (character codes), zero padded
Digits(n, width) == [i \in 1..width |-> 48 + ((n \div Pow10(width - i)) % 10)]

\* a month key without the zero padding of the month: "YYYY-M"
PeriodStrUnpadded(t) ==
    Digits(t.year, 4) \o <<45>> \o Digits(t.month, IF t.month < 10 THEN 1 ELSE 2)

\* .dt.to_period("M").astype(str): "YYYY-MM"
PeriodStr(t) == Digits(t.year, 4) \o <<45>> \o Digits(t.month, 2)

contribution_margin(r) ==
    r.commission_fee + r.delivery_fee
    - r.payment_processing_fee
    - r.discounts_and_offers
    - r.refunds_chargebacks

\* a margin of exactly 0 counted as profitable
profitable_nonneg(x) == IF x >= 0 THEN "Profitable" ELSE "Loss-Making"

profitable(x) == IF x > 0 THEN "Profitable" ELSE "Loss-Making"

\* the band boundaries 5 and 15 put in the upper band
discount_band_strict(d) ==
    IF d = 0 THEN "No Discount"
    ELSE IF d < 5 * Scale THEN "Low (1-5)"
    ELSE IF d < 15 * Scale THEN "Mid (6-15)"
    ELSE "High (15+)"

discount_band(d) ==
    IF d = 0 THEN "No Discount"
    ELSE IF d <= 5 * Scale THEN "Low (1-5)"
    ELSE IF d <= 15 * Scale THEN "Mid (6-15)"
    ELSE "High (15+)"

\* the band boundaries 15, 30 and 50 put in the lower band
order_band_inclusive(v) ==
    IF v <= 15 * Scale THEN "Low (< $15)"
    ELSE IF v <= 30 * Scale THEN "Mid ($15-30)"
    ELSE IF v <= 50 * Scale THEN "High ($30-50)"
    ELSE "Premium (> $50)"

order_band(v) ==
    IF v < 15 * Scale THEN "Low (< $15)"
    ELSE IF v < 30 * Scale THEN "Mid ($15-30)"
    ELSE IF v < 50 * Scale THEN "High ($30-50)"
    ELSE "Premium (> $50)"

\* lines 29-50: the derived columns, in the order the script adds them
Derived(d) ==
    LET d1 == AddColumn(d,  "order_date",
                [i \in DOMAIN d.rows |-> ToDatetime(d.rows[i].order_date_and_time)])
        d2 == AddColumn(d1, "delivery_date",
                [i \in DOMAIN d.rows |-> ToDatetime(d.rows[i].delivery_date_and_time)])
        d3 == AddColumn(d2, "order_month",
                [i \in DOMAIN d.rows |-> PeriodStr(d2.rows[i].order_date)])
        d4 == AddColumn(d3, "contribution_margin",
                [i \in DOMAIN d.rows |-> contribution_margin(d3.rows[i])])
        d5 == AddColumn(d4, "profitable",
                [i \in DOMAIN d.rows |-> profitable(d4.rows[i].contribution_margin)])
    IN  AddColumn(d5, "discount_band",
                [i \in DOMAIN d.rows |-> discount_band(d5.rows[i].discounts_and_offers)])

\* the order band added and the table re-sorted by descending order value
WithOrderBandSorted(d) ==
    LET b == AddColumn(d, "order_band",
                [i \in DOMAIN d.rows |-> order_band(d.rows[i].order_value)])
    IN  [b EXCEPT !.rows = StableSort(b.rows, [i, j \in DOMAIN b.rows |->
                                b.rows[i].order_value > b.rows[j].order_value])]

\* the order band added and the orders of the lowest band dropped from the table
WithOrderBandDropLow(d) ==
    LET b == AddColumn(d, "order_band",
                [i \in DOMAIN d.rows |-> order_band(d.rows[i].order_value)])
    IN  [b EXCEPT !.rows = SelectSeq(b.rows, LAMBDA r : r.order_band # "Low (< $15)")]

\* line 181
WithOrderBand(d) ==
    AddColumn(d, "order_band", [i \in DOMAIN d.rows |-> order_band(d.rows[i].order_value)])

-----------------------------------------------------------------------------
(* The six aggregations *)

\* lines 55-58
AovPayAgg(d) ==
    LET g == GroupBy(d.rows, "payment_method")
        t == [k \in DOMAIN g |->
                [payment_method  |-> g[k].key,
                 avg_order_value |-> Mean(Column(g[k].rows, "order_value")),
                 total_orders    |-> Len(g[k].rows)]]
    IN  StableSort(t, [i, j \in DOMAIN t |->
                          MeanLess(t[i].avg_order_value, t[j].avg_order_value)])

\* lines 77-80
MonthlyAgg(d) ==
    LET g == GroupBy(d.rows, "order_month")
        t == [k \in DOMAIN g |->
                [order_month  |-> g[k].key,
                 total_orders |-> Len(g[k].rows),
                 total_gmv    |-> SumSeq(Column(g[k].rows, "order_value"))]]
    IN  StableSort(t, [i, j \in DOMAIN t |-> LexLess(t[i].order_month, t[j].order_month)])

\* lines 105-109
ProfitAgg(d) ==
    LET g == GroupBy(d.rows, "profitable")
    IN  [k \in DOMAIN g |->
            [profitable      |-> g[k].key,
             order_count     |-> Len(g[k].rows),
             total_margin    |-> SumSeq(Column(g[k].rows, "contribution_margin")),
             avg_order_value |-> Mean(Column(g[k].rows, "order_value"))]]

\* lines 141-145
DiscAgg(d) ==
    LET g == GroupBy(d.rows, "discount_band")
    IN  [k \in DOMAIN g |->
            [discount_band    |-> g[k].key,
             avg_order_value  |-> Mean(Column(g[k].rows, "order_value")),
             avg_contribution |-> Mean(Column(g[k].rows, "contribution_margin")),
             order_count      |-> Len(g[k].rows)]]

\* line 146
order_map(b) ==
    CASE b = "No Discount" -> 0
      [] b = "Low (1-5)"   -> 1
      [] b = "Mid (6-15)"  -> 2
      [] b = "High (15+)"  -> 3

\* line 147
DiscMapped(t) == [i \in DOMAIN t |-> WithCell(t[i], "sort", order_map(t[i].discount_band))]

\* line 148
DiscSorted(t) == StableSort(t, [i, j \in DOMAIN t |-> t[i].sort < t[j].sort])

\* line 182
band_order == << "Low (< $15)", "Mid ($15-30)", "High ($30-50)", "Premium (> $50)" >>

\* lines 184-185: the mean over the group of delivery_fee / order_value, times 100,
\* kept as its terms
FeePct(rows) ==
    [ratios |-> [i \in DOMAIN rows |->
                    [num |-> 100 * rows[i].delivery_fee, den |-> rows[i].order_value]],
     n      |-> Len(rows)]

\* a selection of the labels of index that t has, in that order, instead of a
\* reindex: no row for a label without group
ReindexPresent(t, keycol, cols, index) ==
    LET present == SelectSeq(index, LAMBDA b : \E k \in DOMAIN t : t[k][keycol] = b)
    IN  [i \in DOMAIN present |->
            [c \in cols \cup {keycol} |->
                IF c = keycol THEN present[i]
                ELSE Cell(t[CHOOSE k \in DOMAIN t : t[k][keycol] = present[i]][c])]]

\* t.reindex(index): one row per label of index, in that order; the row of t
\* with that label in keycol when there is one, empty cells otherwise
Reindex(t, keycol, cols, index) ==
    [i \in DOMAIN index |->
        LET hit == {k \in DOMAIN t : t[k][keycol] = index[i]}
        IN  [c \in cols \cup {keycol} |->
                IF c = keycol THEN index[i]
                ELSE IF hit = {} THEN NaN
                ELSE Cell(t[CHOOSE k \in hit : TRUE][c])]]

\* lines 183-188
BandAgg(d) ==
    LET g == GroupBy(d.rows, "order_band")
        t == [k \in DOMAIN g |->
                [order_band       |-> g[k].key,
                 delivery_fee_pct |-> FeePct(g[k].rows),
                 avg_margin       |-> Mean(Column(g[k].rows, "contribution_margin")),
                 count            |-> Len(g[k].rows)]]
    IN  Reindex(t, "order_band", {"delivery_fee_pct", "avg_margin", "count"}, band_order)

\* lines 216-220
RestAgg(d) ==
    LET g == GroupBy(d.rows, "restaurant_id")
    IN  [k \in DOMAIN g |->
            [restaurant_id |-> g[k].key,
             total_orders  |-> Len(g[k].rows),
             refund_orders |-> Len(SelectSeq(g[k].rows, LAMBDA r : r.refunds_chargebacks > 0)),
             total_refund  |-> SumSeq(Column(g[k].rows, "refunds_chargebacks"))]]

\* line 221
WithRefundRate(t) ==
    [i \in DOMAIN t |->
        WithCell(t[i], "refund_rate",
                 [num |-> t[i].refund_orders * 100, den |-> t[i].total_orders])]

\* the ranking done before the exclusion of the restaurants with few orders
TopRefundRankFirst(t) ==
    SelectSeq(NLargest(t, 10, "refund_rate"), LAMBDA r : r.total_orders >= 5)

\* line 222
TopRefund(t) ==
    NLargest(SelectSeq(t, LAMBDA r : r.total_orders >= 5), 10, "refund_rate")

-----------------------------------------------------------------------------
(* The script *)

Blocks == 1..6

\* the first position of each report block
FirstStep == <<"agg", "agg", "agg", "agg", "band", "agg">>

ImageFile ==
    << "aov_by_payment_method.png", "monthly_gmv_trend.png",
       "profitability_breakdown.png", "discount_impact_margin.png",
       "delivery_cost_by_order_band.png", "refund_rate_by_restaurant.png" >>

SavedLine ==
    << "Chart 1 saved", "Chart 2 saved", "Chart 3 saved",
       "Chart 4 saved", "Chart 5 saved", "Chart 6 saved" >>

FinalLine == "All 6 visualizations saved to /visualizations/"

Start ==
    /\ pc = "setup"
    /\ bpc = FirstStep
    /\ file_ok \in BOOLEAN
    /\ fig_dir \in BOOLEAN
    /\ df = NoTable
    /\ aov_pay = <<>> /\ monthly = <<>> /\ profit_summary = <<>>
    /\ disc_impact = <<>> /\ band_data = <<>>
    /\ rest_refund = <<>> /\ top_refund = <<>>
    /\ images = {}
    /\ out = <<>>

Init == Start /\ csv \in SmallTables \cup UnitTables \cup RankTables

InitPerm == Start /\ ~fig_dir /\ csv \in PermTables

summaries == <<aov_pay, monthly, profit_summary, disc_impact, band_data,
               rest_refund, top_refund>>

env == <<file_ok, csv>>

\* lines 19-22
Setup ==
    /\ pc = "setup"
    /\ fig_dir' = TRUE
    /\ pc' = "load"
    /\ UNCHANGED <<bpc, env, df, summaries, images, out>>

\* lines 25-26; an unreadable file raises and ends the run
Load ==
    /\ pc = "load"
    /\ IF file_ok
       THEN df' = ReadCsv(csv) /\ pc' = "derive"
       ELSE df' = df /\ pc' = "aborted"
    /\ UNCHANGED <<bpc, env, fig_dir, summaries, images, out>>

\* lines 29-50
Derive ==
    /\ pc = "derive"
    /\ df' = Derived(df)
    /\ pc' = "charts"
    /\ UNCHANGED <<bpc, env, fig_dir, summaries, images, out>>

\* block k is at position at; in the script's order the blocks before it are done
At(k, at, ordered) ==
    /\ pc = "charts"
    /\ bpc[k] = at
    /\ ordered => \A j \in 1..(k - 1) : bpc[j] = "done"

Goto(k, to) == bpc' = [bpc EXCEPT ![k] = to]

Chart1Agg(ordered) ==
    /\ At(1, "agg", ordered)
    /\ aov_pay' = AovPayAgg(df)
    /\ Goto(1, "save")
    /\ UNCHANGED <<pc, env, fig_dir, df, monthly, profit_summary, disc_impact,
                   band_data, rest_refund, top_refund, images, out>>

Chart2Agg(ordered) ==
    /\ At(2, "agg", ordered)
    /\ monthly' = MonthlyAgg(df)
    /\ Goto(2, "save")
    /\ UNCHANGED <<pc, env, fig_dir, df, aov_pay, profit_summary, disc_impact,
                   band_data, rest_refund, top_refund, images, out>>

Chart3Agg(ordered) ==
    /\ At(3, "agg", ordered)
    /\ profit_summary' = ProfitAgg(df)
    /\ Goto(3, "save")
    /\ UNCHANGED <<pc, env, fig_dir, df, aov_pay, monthly, disc_impact,
                   band_data, rest_refund, top_refund, images, out>>

Chart4Agg(ordered) ==
    /\ At(4, "agg", ordered)
    /\ disc_impact' = DiscAgg(df)
    /\ Goto(4, "map")
    /\ UNCHANGED <<pc, env, fig_dir, df, aov_pay, monthly, profit_summary,
                   band_data, rest_refund, top_refund, images, out>>

Chart4Map(ordered) ==
    /\ At(4, "map", ordered)
    /\ disc_impact' = DiscMapped(disc_impact)
    /\ Goto(4, "sort")
    /\ UNCHANGED <<pc, env, fig_dir, df, aov_pay, monthly, profit_summary,
                   band_data, rest_refund, top_refund, images, out>>

Chart4Sort(ordered) ==
    /\ At(4, "sort", ordered)
    /\ disc_impact' = DiscSorted(disc_impact)
    /\ Goto(4, "save")
    /\ UNCHANGED <<pc, env, fig_dir, df, aov_pay, monthly, profit_summary,
                   band_data, rest_refund, top_refund, images, out>>

Chart5Band(ordered) ==
    /\ At(5, "band", ordered)
    /\ df' = WithOrderBand(df)
    /\ Goto(5, "agg")
    /\ UNCHANGED <<pc, env, fig_dir, summaries, images, out>>

Chart5Agg(ordered) ==
    /\ At(5, "agg", ordered)
    /\ band_data' = BandAgg(df)
    /\ Goto(5, "save")
    /\ UNCHANGED <<pc, env, fig_dir, df, aov_pay, monthly, profit_summary,
                   disc_impact, rest_refund, top_refund, images, out>>

Chart6Agg(ordered) ==
    /\ At(6, "agg", ordered)
    /\ rest_refund' = RestAgg(df)
    /\ Goto(6, "rate")
    /\ UNCHANGED <<pc, env, fig_dir, df, aov_pay, monthly, profit_summary,
                   disc_impact, band_data, top_refund, images, out>>

Chart6Rate(ordered) ==
    /\ At(6, "rate", ordered)
    /\ rest_refund' = WithRefundRate(rest_refund)
    /\ Goto(6, "top")
    /\ UNCHANGED <<pc, env, fig_dir, df, aov_pay, monthly, profit_summary,
                   disc_impact, band_data, top_refund, images, out>>

Chart6Top(ordered) ==
    /\ At(6, "top", ordered)
    /\ top_refund' = TopRefund(rest_refund)
    /\ Goto(6, "save")
    /\ UNCHANGED <<pc, env, fig_dir, df, aov_pay, monthly, profit_summary,
                   disc_impact, band_data, rest_refund, images, out>>

\* a rendering that writes no file
SaveFigSkipped(k, ordered) ==
    /\ At(k, "save", ordered)
    /\ Goto(k, "print")
    /\ UNCHANGED <<pc, env, fig_dir, df, summaries, images, out>>

\* the rendering of block k up to plt.savefig and plt.close
SaveFig(k, ordered) ==
    /\ At(k, "save", ordered)
    /\ images' = images \cup {ImageFile[k]}
    /\ Goto(k, "print")
    /\ UNCHANGED <<pc, env, fig_dir, df, summaries, out>>

\* print("Chart k saved")
PrintSaved(k, ordered) ==
    /\ At(k, "print", ordered)
    /\ out' = Append(out, SavedLine[k])
    /\ Goto(k, "done")
    /\ UNCHANGED <<pc, env, fig_dir, df, summaries, images>>

\* line 242
PrintFinal ==
    /\ pc = "charts"
    /\ \A k \in Blocks : bpc[k] = "done"
    /\ out' = Append(out, FinalLine)
    /\ pc' = "done"
    /\ UNCHANGED <<bpc, env, fig_dir, df, summaries, images>>

Report(ordered) ==
    \/ Chart1Agg(ordered) \/ Chart2Agg(ordered) \/ Chart3Agg(ordered)
    \/ Chart4Agg(ordered) \/ Chart4Map(ordered) \/ Chart4Sort(ordered)
    \/ Chart5Band(ordered) \/ Chart5Agg(ordered)
    \/ Chart6Agg(ordered) \/ Chart6Rate(ordered) \/ Chart6Top(ordered)
    \/ \E k \in Blocks : SaveFig(k, ordered)
    \/ \E k \in Blocks : PrintSaved(k, ordered)

\* the script as written: the blocks in the order 1..6
Next == Setup \/ Load \/ Derive \/ Report(TRUE) \/ PrintFinal

Spec == Init /\ [][Next]_vars

\* the same statements with the six blocks in any order and interleaving
NextPerm == Setup \/ Load \/ Derive \/ Report(FALSE) \/ PrintFinal

SpecPerm == InitPerm /\ [][NextPerm]_vars

-----------------------------------------------------------------------------
(* Properties *)

\* block k has computed its final summary table
Made(k) == bpc[k] \in {"save", "print", "done"}

Derivation == pc \in {"charts", "done"}

HasColumn(c) == c \in Range(df.columns)

\* the fixed order of the discount bands (the ranks of order_map)
DiscBandOrder == << "No Discount", "Low (1-5)", "Mid (6-15)", "High (15+)" >>

EmptyBandRow(r) == r.delivery_fee_pct = NaN /\ r.avg_margin = NaN /\ r.count = NaN

OrdersInBand(b) == Len(SelectSeq(df.rows, LAMBDA r : r.order_band = b))

\* C1 as stated: the discount-band summary and the order-band summary both
\* always hold exactly four rows, one per named band in the fixed band order.
C1_BothFourRows ==
    /\ Made(4) => Column(disc_impact, "discount_band") = DiscBandOrder
    /\ Made(5) => Column(band_data, "order_band") = band_order

\* C1 amended: the order-band summary always holds exactly four rows, one per
\* named band in the fixed order, a band without orders having empty cells and
\* any other band its order count; the discount-band summary holds one row per
\* discount band that some order falls into, in the fixed band order, and no
\* row for a band without orders.
C1_FixedBands ==
    /\ Made(5) =>
          /\ Column(band_data, "order_band") = band_order
          /\ \A i \in DOMAIN band_data :
                IF OrdersInBand(band_order[i]) = 0
                THEN EmptyBandRow(band_data[i])
                ELSE band_data[i].count = Cell(OrdersInBand(band_order[i]))
    /\ Made(4) =>
          Column(disc_impact, "discount_band")
            = SelectSeq(DiscBandOrder,
                        LAMBDA b : \E i \in DOMAIN df.rows : df.rows[i].discount_band = b)

C1_Witness ==
    /\ Made(4) /\ Made(5)
    /\ df.rows # <<>>
    /\ Len(disc_impact) < 4
    /\ \E i \in DOMAIN band_data : EmptyBandRow(band_data[i])
    /\ \E i \in DOMAIN band_data : ~EmptyBandRow(band_data[i])

Eligible == SelectSeq(rest_refund, LAMBDA r : r.total_orders >= 5)

\* the place of a restaurant in the grouped table
GroupIndex(id) == CHOOSE i \in DOMAIN rest_refund : rest_refund[i].restaurant_id = id

RateOf(r) == [num |-> 100 * r.refund_orders, den |-> r.total_orders]

DerivedColumns ==
    {"order_month", "contribution_margin", "profitable", "discount_band", "order_band"}

\* the first of the six aggregations has run
FirstAggregationRun == bpc[1] # "agg"

\* C3 as stated: every derived column, order_band included, is in the table
\* before the first aggregation runs.
C3_EnrichedBeforeFirst ==
    FirstAggregationRun => \A c \in DerivedColumns : HasColumn(c)

\* df' is df with the one column order_band appended and nothing else changed
AppendsOrderBand ==
    /\ df'.columns = Append(df.columns, "order_band")
    /\ DOMAIN df'.rows = DOMAIN df.rows
    /\ \A i \in DOMAIN df.rows :
          \A c \in Range(df.columns) : df'.rows[i][c] = df.rows[i][c]

\* C3 amended: order_month, contribution_margin, profitable and discount_band
\* are in the table before the first aggregation runs; order_band is appended
\* in the fifth report block, after four aggregations and before the fifth;
\* from the first aggregation on that append is the only change to the table:
\* no other column is added and no existing column is changed or removed.
C3_EnrichedThenAppendOnly ==
    /\ [](FirstAggregationRun =>
            /\ \A c \in DerivedColumns \ {"order_band"} : HasColumn(c)
            /\ HasColumn("order_band") <=> bpc[5] # "band")
    /\ [][FirstAggregationRun =>
            \/ df' = df
            \/ bpc[5] = "band" /\ bpc'[5] = "agg" /\ Made(4) /\ AppendsOrderBand]_vars

C3_Witness ==
    /\ Made(1) /\ Made(4)
    /\ bpc[5] = "agg"
    /\ HasColumn("order_band")
    /\ Len(df.rows) > 1

\* C4: every discount d >= 0 is in exactly one band: No Discount iff d = 0,
\* Low iff 0 < d <= 5, Mid iff 5 < d <= 15, High iff d > 15.
C4_DiscountBand ==
    Derivation =>
      \A i \in DOMAIN df.rows :
        LET d == df.rows[i].discounts_and_offers
            b == df.rows[i].discount_band
        IN  /\ b \in Range(DiscBandOrder)
            /\ b = "No Discount" <=> d = 0
            /\ b = "Low (1-5)"   <=> (0 < d /\ d <= 5 * Scale)
            /\ b = "Mid (6-15)"  <=> (5 * Scale < d /\ d <= 15 * Scale)
            /\ b = "High (15+)"  <=> d > 15 * Scale

C4_Witness ==
    /\ Derivation
    /\ Len(df.rows) = 1
    /\ df.rows[1].discounts_and_offers = 5 * Scale + 1
    /\ df.rows[1].discount_band = "Mid (6-15)"

\* C5: every order value v >= 0 is in exactly one band: Low iff 0 <= v < 15,
\* Mid iff 15 <= v < 30, High iff 30 <= v < 50, Premium iff v >= 50.
C5_OrderBand ==
    bpc[5] # "band" =>
      \A i \in DOMAIN df.rows :
        LET v == df.rows[i].order_value
            b == df.rows[i].order_band
        IN  /\ b \in Range(band_order)
            /\ b = "Low (< $15)"     <=> (0 <= v /\ v < 15 * Scale)
            /\ b = "Mid ($15-30)"    <=> (15 * Scale <= v /\ v < 30 * Scale)
            /\ b = "High ($30-50)"   <=> (30 * Scale <= v /\ v < 50 * Scale)
            /\ b = "Premium (> $50)" <=> v >= 50 * Scale

C5_Witness ==
    /\ bpc[5] # "band"
    /\ Len(df.rows) = 1
    /\ df.rows[1].order_value = 50 * Scale
    /\ df.rows[1].order_band = "Premium (> $50)"

\* C6: a row is "Profitable" iff commission_fee + delivery_fee -
\* payment_processing_fee - discount - refund > 0, and "Loss-Making"
\* otherwise, a margin of exactly 0 included.
C6_Profitable ==
    Derivation =>
      \A i \in DOMAIN df.rows :
        LET r == df.rows[i]
            m == r.commission_fee + r.delivery_fee - r.payment_processing_fee
                 - r.discounts_and_offers - r.refunds_chargebacks
        IN  /\ r.contribution_margin = m
            /\ r.profitable = "Profitable" <=> m > 0
            /\ r.profitable = "Loss-Making" <=> m <= 0

C6_Witness ==
    /\ Derivation
    /\ \E i \in DOMAIN df.rows :
          /\ df.rows[i].contribution_margin = 0
          /\ df.rows[i].commission_fee > 0
          /\ df.rows[i].profitable = "Loss-Making"

\* summary t has exactly one row for each value of column col in rows
OneRowPerKey(t, col, rows) ==
    /\ Range(Column(t, col)) = Range(Column(rows, col))
    /\ Len(t) = Cardinality(Range(Column(rows, col)))

\* C7: each natural grouping (payment method, order month, profitability
\* label, restaurant id) has exactly one row per distinct key value of the
\* input: none omitted, none twice, none without rows.
C7_OneRowPerKey ==
    /\ Made(1) => OneRowPerKey(aov_pay, "payment_method", csv)
    /\ Made(2) => OneRowPerKey(monthly, "order_month", df.rows)
    /\ Made(3) => OneRowPerKey(profit_summary, "profitable", df.rows)
    /\ bpc[6] # "agg" => OneRowPerKey(rest_refund, "restaurant_id", csv)

C7_Witness ==
    /\ Made(1) /\ Made(2) /\ Made(3) /\ bpc[6] # "agg"
    /\ Len(csv) = 3
    /\ Len(aov_pay) = 2 /\ Len(monthly) = 2
    /\ Len(profit_summary) = 2 /\ Len(rest_refund) = 2
    /\ csv[1].payment_method = csv[3].payment_method
    /\ csv[1].restaurant_id = csv[3].restaurant_id

RECURSIVE DigitsValue(_)
\* the number a run of decimal digits (character codes) denotes
DigitsValue(s) ==
    IF s = <<>> THEN 0
    ELSE 10 * DigitsValue(SubSeq(s, 1, Len(s) - 1)) + (s[Len(s)] - 48)

\* the calendar month <<year, month>> a month key "Y-M" denotes
MonthOfKey(s) ==
    LET h == CHOOSE i \in DOMAIN s : s[i] = 45
    IN  <<DigitsValue(SubSeq(s, 1, h - 1)), DigitsValue(SubSeq(s, h + 1, Len(s)))>>

MonthOfOrder(r) == <<r.order_date_and_time.year, r.order_date_and_time.month>>

Chronological(a, b) == a[1] < b[1] \/ (a[1] = b[1] /\ a[2] < b[2])

\* C8: the monthly summary has one row per calendar month of the order time
\* stamps, with total_orders the number of that month's orders and total_gmv
\* the sum of their order values, the rows in chronological order.
C8_Monthly ==
    Made(2) =>
      /\ \A m \in {MonthOfOrder(csv[k]) : k \in DOMAIN csv} :
            LET same == SelectSeq(csv, LAMBDA r : MonthOfOrder(r) = m)
                hits == {i \in DOMAIN monthly : MonthOfKey(monthly[i].order_month) = m}
            IN  /\ Cardinality(hits) = 1
                /\ \A i \in hits :
                      /\ monthly[i].total_orders = Len(same)
                      /\ monthly[i].total_gmv = SumSeq(Column(same, "order_value"))
      /\ Len(monthly) = Cardinality({MonthOfOrder(csv[k]) : k \in DOMAIN csv})
      /\ \A i, j \in DOMAIN monthly :
            i < j => Chronological(MonthOfKey(monthly[i].order_month),
                                   MonthOfKey(monthly[j].order_month))

C8_Witness ==
    /\ Made(2)
    /\ Len(monthly) = 2
    /\ monthly[1].total_orders = 2
    /\ csv[1].order_date_and_time.day # csv[3].order_date_and_time.day
    /\ csv[1].order_date_and_time.month = csv[3].order_date_and_time.month
    /\ csv[2].order_date_and_time.month = 10

ExpectedLines == SavedLine \o <<FinalLine>>

\* C9: line k is printed only after image k is written and after the lines
\* 1..k-1, the final line only after all six; with an unreadable input file
\* nothing is derived, no image is written and no line is printed.
C9_Console ==
    /\ Len(out) <= Len(ExpectedLines)
    /\ out = SubSeq(ExpectedLines, 1, Len(out))
    /\ \A k \in Blocks : Len(out) >= k => ImageFile[k] \in images
    /\ ~file_ok => df = NoTable /\ images = {} /\ out = <<>> /\ pc # "charts"

C9_Witness ==
    /\ pc = "done"
    /\ out = ExpectedLines
    /\ Cardinality(images) = 6

\* the table of the script as written when blocks 1..4 aggregate, and when
\* blocks 5 and 6 do
InOrderDerived(c) == Derived(ReadCsv(c))

InOrderBanded(c) == WithOrderBand(Derived(ReadCsv(c)))

====
